---- MODULE Spec2Model ----
(***************************************************************************)
(* The lock-free MPMC ring buffer of queue/ring.go (RingBuffer), one atomic *)
(* memory access per step.  Each thread is a goroutine that calls Put,      *)
(* Offer, Get, Poll and Dispose; its position inside the call is pc[t].     *)
(*                                                                         *)
(* uint64 arithmetic is arithmetic modulo 2^WordBits.  TLC's integers are   *)
(* 32 bits wide, so the word is narrower than 64 bits; every counter of a   *)
(* run stays far below 2^WordBits (at most MaxCalls), so the only wrap that *)
(* happens is the one the code relies on: an unsigned subtraction a - b     *)
(* with a < b gives a large positive word, never a negative number.         *)
(***************************************************************************)
EXTENDS Integers, Sequences, FiniteSets, TLC

\* ---------------------------------------------------------------- bounds
WordBits == 8      \* width of the model's unsigned word
NThreads == 2      \* goroutines using the buffer
MaxSize == 2       \* largest size passed to NewRingBuffer
MaxCalls == 4      \* calls started in one run of Spec
FullCalls == 3     \* calls started in one run of FullSpec and FairSpec
SeqCalls == 6      \* calls started in one run of SeqSpec
MaxTime == 1       \* last tick of the wall clock
MaxTimeout == 1    \* largest positive timeout passed to Poll
NegTimeout == 1    \* Poll is also called with timeouts 0 - NegTimeout .. 0 - 1
TimedCalls == 2    \* calls started in one run of TimedSpec and TimedFairSpec
LapCalls == 3      \* calls started in one run of LapSpec
LiveCalls == 3     \* calls started in one run of LiveSpec

Threads == 1..NThreads
Sizes == 1..MaxSize
Nil == 0           \* the nil interface value; items are positive
None == 0 - 1      \* "no entry" in the reservation logs
\* positions the reservation logs cover: tail and head never pass LogLen
LogLen == 2 * MaxSize + MaxCalls + FullCalls + SeqCalls + LapCalls
\* the item stored at position k before the run starts (no call passes it)
PreItem(k) == LogLen + k + 1

\* ------------------------------------------------------- uint64 arithmetic
Word == 2^WordBits
Add(a, b) == (a + b) % Word
Sub(a, b) == (a - b) % Word
Shr(v, k) == IF k >= WordBits THEN 0 ELSE v \div (2^k)

RECURSIVE BitAnd(_, _)
BitAnd(x, y) ==
    IF x = 0 \/ y = 0 THEN 0
    ELSE (x % 2) * (y % 2) + 2 * BitAnd(x \div 2, y \div 2)

RECURSIVE BitOr(_, _)
BitOr(x, y) ==
    IF x = 0 THEN y
    ELSE IF y = 0 THEN x
    ELSE (IF x % 2 = 1 \/ y % 2 = 1 THEN 1 ELSE 0) + 2 * BitOr(x \div 2, y \div 2)

\* mutant of roundUp: the leading v-- is left out
roundUpNoDecrement(v) ==
    LET v1 == BitOr(v, Shr(v, 1))
        v2 == BitOr(v1, Shr(v1, 2))
        v3 == BitOr(v2, Shr(v2, 4))
        v4 == BitOr(v3, Shr(v3, 8))
        v5 == BitOr(v4, Shr(v4, 16))
        v6 == BitOr(v5, Shr(v5, 32))
    IN  Add(v6, 1)

\* roundUp (ring.go:27): v--, smear the top bit down, v++.
roundUp(v) ==
    LET v0 == Sub(v, 1)
        v1 == BitOr(v0, Shr(v0, 1))
        v2 == BitOr(v1, Shr(v1, 2))
        v3 == BitOr(v2, Shr(v2, 4))
        v4 == BitOr(v3, Shr(v3, 8))
        v5 == BitOr(v4, Shr(v4, 16))
        v6 == BitOr(v5, Shr(v5, 32))
    IN  Add(v6, 1)

\* ------------------------------------------------------------------ state
VARIABLES
    tail,       \* rb.tail
    head,       \* rb.head
    disposed,   \* rb.disposed (0 | 1)
    mask,       \* rb.mask
    size,       \* the size NewRingBuffer was called with (ring.go:235)
    nodes,      \* rb.nodes: index -> [position, data]
    pc,         \* per thread: where it is in its call ("idle" between calls)
    op,         \* per thread: "put" | "offer" | "get" | "poll" (last call)
    item,       \* per thread: the item of its Put/Offer
    pos,        \* per thread: put's local tail (line 108) / Poll's local pos (line 171)
    timeout,    \* per thread: Poll's timeout (0 for Get)
    start,      \* per thread: Poll's start time
    res,        \* per thread: result of its last call
    val,        \* per thread: value returned by its last Get/Poll
    now,        \* the wall clock
    calls,      \* calls started so far
    \* history variables (no effect on the program)
    yielded,    \* per thread: the call has run runtime.Gosched() (looped)
    startDisp,  \* per thread: disposed was 1 when the call started
    drainable,  \* per thread: call began after Dispose, alone, on a published head slot
    sawFull,    \* per thread (Offer): the buffer was full at some instant of the call
    blocked,    \* per thread: was waiting on a full/empty buffer when Dispose hit
    putAt,      \* k -> item of the put whose CAS moved tail from k to k+1
    getAt,      \* k -> value returned by the Poll whose CAS moved head from k to k+1
    hist        \* completed calls in order (kept by SeqSpec only)

prog == <<tail, head, disposed, mask, nodes, size>>
locals == <<pc, op, item, pos, timeout, start, res, val>>
ghost == <<yielded, startDisp, drainable, sawFull, blocked, putAt, getAt>>
vars == <<prog, locals, now, calls, ghost, hist>>

\* Cap (ring.go:216): len(rb.nodes)
Cap == Cardinality(DOMAIN nodes)
\* Len (ring.go:211) on one snapshot of tail and head
Occupied(tl, hd) == Sub(tl, hd)
\* n = &rb.nodes[x & rb.mask] (ring.go:118, 185)
Slot(x) == BitAnd(x, mask)
\* the slot at position k holds a published, unread value
Published(k) == nodes[Slot(k)].position = Add(k, 1)
Running == \A t \in Threads : pc[t] # "panic"

\* NewRingBuffer / init (ring.go:63, 235)
NewRingBuffer(s) ==
    LET sz == roundUp(s) IN
    /\ size = s
    /\ nodes = [i \in 0..(sz - 1) |-> [position |-> i, data |-> Nil]]
    /\ mask = Sub(sz, 1)
    /\ tail = 0
    /\ head = 0
    /\ disposed = 0

\* no goroutine has called anything yet
Fresh ==
    /\ pc = [t \in Threads |-> "idle"]
    /\ op = [t \in Threads |-> "none"]
    /\ item = [t \in Threads |-> Nil]
    /\ pos = [t \in Threads |-> 0]
    /\ timeout = [t \in Threads |-> 0]
    /\ start = [t \in Threads |-> 0]
    /\ res = [t \in Threads |-> "none"]
    /\ val = [t \in Threads |-> Nil]
    /\ now = 0
    /\ calls = 0
    /\ yielded = [t \in Threads |-> FALSE]
    /\ startDisp = [t \in Threads |-> FALSE]
    /\ drainable = [t \in Threads |-> FALSE]
    /\ sawFull = [t \in Threads |-> FALSE]
    /\ blocked = [t \in Threads |-> FALSE]
    /\ hist = <<>>

\* the buffer as NewRingBuffer returns it
Init ==
    /\ \E s \in Sizes : NewRingBuffer(s)
    /\ putAt = [k \in 0..(LogLen - 1) |-> None]
    /\ getAt = [k \in 0..(LogLen - 1) |-> None]
    /\ Fresh

\* the buffer after one goroutine has Put n items (n <= Cap) and returned:
\* lines 139-140 have run for positions 0..n-1, rb.tail is n
Filled(s, n) ==
    LET sz == roundUp(s) IN
    /\ size = s
    /\ nodes = [i \in 0..(sz - 1) |->
                    IF i < n THEN [position |-> Add(i, 1), data |-> PreItem(i)]
                    ELSE [position |-> i, data |-> Nil]]
    /\ mask = Sub(sz, 1)
    /\ tail = n
    /\ head = 0
    /\ disposed = 0
    /\ putAt = [k \in 0..(LogLen - 1) |-> IF k < n THEN PreItem(k) ELSE None]
    /\ getAt = [k \in 0..(LogLen - 1) |-> None]

InitFilled ==
    /\ \E s \in Sizes : \E n \in 0..roundUp(s) : Filled(s, n)
    /\ Fresh

\* ------------------------------------------------------ history bookkeeping
\* sawFull after a step that leaves tail = tl, head = hd and program counters pcs
ObserveFull(sf, tl, hd, pcs, ops) ==
    [u \in Threads |->
        sf[u] \/ (pcs[u] # "idle" /\ ops[u] = "offer" /\ Occupied(tl, hd) = Cap)]

\* the bookkeeping of a call that thread t starts as operation o
Begin(t, o) ==
    /\ Running
    /\ pc[t] = "idle"
    /\ calls' = calls + 1
    /\ op' = [op EXCEPT ![t] = o]
    /\ res' = [res EXCEPT ![t] = "none"]
    /\ val' = [val EXCEPT ![t] = Nil]
    /\ yielded' = [yielded EXCEPT ![t] = FALSE]
    /\ startDisp' = [startDisp EXCEPT ![t] = (disposed = 1)]
    /\ drainable' = [drainable EXCEPT ![t] =
            /\ disposed = 1
            /\ Published(head)
            /\ Occupied(tail, head) <= Cap
            /\ \A u \in Threads : pc[u] = "idle"]
    /\ blocked' = [blocked EXCEPT ![t] = FALSE]
    /\ UNCHANGED <<prog, now, putAt, getAt>>

\* thread t returns r (and v, for Get/Poll)
Return(t, r, v) ==
    /\ pc' = [pc EXCEPT ![t] = "idle"]
    /\ res' = [res EXCEPT ![t] = r]
    /\ val' = [val EXCEPT ![t] = v]
    /\ pos' = [pos EXCEPT ![t] = 0]
    /\ timeout' = [timeout EXCEPT ![t] = 0]
    /\ start' = [start EXCEPT ![t] = 0]

\* ------------------------------------------------------------- Put / Offer
\* Put (ring.go:75) and Offer (ring.go:83) enter put; line 108 loads rb.tail
StartPut(t, o) ==
    /\ Begin(t, o)
    /\ item' = [item EXCEPT ![t] = calls + 1]
    /\ pos' = [pos EXCEPT ![t] = tail]
    /\ pc' = [pc EXCEPT ![t] = "p_disp"]
    /\ sawFull' = ObserveFull([sawFull EXCEPT ![t] = FALSE], tail, head, pc', op')
    /\ UNCHANGED <<timeout, start>>

Put(t) == StartPut(t, "put")

Offer(t) == StartPut(t, "offer")

\* mutant of PutRetry: the offer flag is ignored, every caller yields and loops
PutRetryBlocking(t, newpos) ==
    /\ pc' = [pc EXCEPT ![t] = "p_disp"]
    /\ pos' = [pos EXCEPT ![t] = newpos]
    /\ yielded' = [yielded EXCEPT ![t] = TRUE]
    /\ UNCHANGED <<res, val, timeout, start>>

\* lines 132-136 (offer returns, Put yields and loops)
PutRetry(t, newpos) ==
    IF op[t] = "offer"
    THEN /\ Return(t, "full", Nil)
         /\ UNCHANGED yielded
    ELSE /\ pc' = [pc EXCEPT ![t] = "p_disp"]
         /\ pos' = [pos EXCEPT ![t] = newpos]
         /\ yielded' = [yielded EXCEPT ![t] = TRUE]
         /\ UNCHANGED <<res, val, timeout, start>>

\* mutant of PutCheckDisposed: disposed is looked at on entry only, not again
\* after a Gosched
PutCheckDisposedOnEntry(t) ==
    /\ Running
    /\ pc[t] = "p_disp"
    /\ IF disposed = 1 /\ ~yielded[t]
       THEN Return(t, "disposed", Nil)
       ELSE /\ pc' = [pc EXCEPT ![t] = "p_seq"]
            /\ UNCHANGED <<pos, timeout, start, res, val>>
    /\ UNCHANGED <<prog, op, item, now, calls, ghost>>

\* lines 113-115
PutCheckDisposed(t) ==
    /\ Running
    /\ pc[t] = "p_disp"
    /\ IF disposed = 1
       THEN Return(t, "disposed", Nil)
       ELSE /\ pc' = [pc EXCEPT ![t] = "p_seq"]
            /\ UNCHANGED <<pos, timeout, start, res, val>>
    /\ UNCHANGED <<prog, op, item, now, calls, ghost>>

\* mutant of PutLoadSeq: the sequence and the tail are compared as signed
\* numbers, so a sequence behind the tail panics
PutLoadSeqSigned(t) ==
    /\ Running
    /\ pc[t] = "p_seq"
    /\ LET diff == nodes[Slot(pos[t])].position - pos[t] IN
       pc' = [pc EXCEPT ![t] =
                IF diff = 0 THEN "p_cas"
                ELSE IF diff < 0 THEN "panic"
                ELSE "p_reload"]
    /\ UNCHANGED <<prog, op, item, pos, timeout, start, res, val, now, calls, ghost>>

\* lines 118-121, 126-128: load n.position and choose the case
PutLoadSeq(t) ==
    /\ Running
    /\ pc[t] = "p_seq"
    /\ LET diff == Sub(nodes[Slot(pos[t])].position, pos[t]) IN
       pc' = [pc EXCEPT ![t] =
                IF diff = 0 THEN "p_cas"
                ELSE IF diff < 0 THEN "panic"
                ELSE "p_reload"]
    /\ UNCHANGED <<prog, op, item, pos, timeout, start, res, val, now, calls, ghost>>

\* lines 123-125, then 132-136 when the CAS fails
PutCas(t) ==
    /\ Running
    /\ pc[t] = "p_cas"
    /\ IF tail = pos[t]
       THEN /\ tail' = Add(pos[t], 1)
            /\ pc' = [pc EXCEPT ![t] = "p_data"]
            /\ putAt' = [putAt EXCEPT ![pos[t]] = item[t]]
            /\ sawFull' = ObserveFull(sawFull, tail', head, pc', op)
            /\ UNCHANGED <<pos, timeout, start, res, val, yielded>>
       ELSE /\ PutRetry(t, pos[t])
            /\ UNCHANGED <<tail, putAt, sawFull>>
    /\ UNCHANGED <<head, disposed, mask, size, nodes, op, item, now, calls,
                   startDisp, drainable, blocked, getAt>>

\* line 129, then 132-136
PutReload(t) ==
    /\ Running
    /\ pc[t] = "p_reload"
    /\ PutRetry(t, tail)
    /\ UNCHANGED <<prog, op, item, now, calls,
                   startDisp, drainable, sawFull, blocked, putAt, getAt>>

\* line 139
PutData(t) ==
    /\ Running
    /\ pc[t] = "p_data"
    /\ nodes' = [nodes EXCEPT ![Slot(pos[t])].data = item[t]]
    /\ pc' = [pc EXCEPT ![t] = "p_pub"]
    /\ UNCHANGED <<tail, head, disposed, mask, size, op, item, pos, timeout, start,
                   res, val, now, calls, ghost>>

\* mutant of PutPublish: the slot's sequence is stored as tail, not tail+1
PutPublishStale(t) ==
    /\ Running
    /\ pc[t] = "p_pub"
    /\ nodes' = [nodes EXCEPT ![Slot(pos[t])].position = pos[t]]
    /\ Return(t, "ok", Nil)
    /\ UNCHANGED <<tail, head, disposed, mask, size, op, item, now, calls, ghost>>

\* lines 140-141
PutPublish(t) ==
    /\ Running
    /\ pc[t] = "p_pub"
    /\ nodes' = [nodes EXCEPT ![Slot(pos[t])].position = Add(pos[t], 1)]
    /\ Return(t, "ok", Nil)
    /\ UNCHANGED <<tail, head, disposed, mask, size, op, item, now, calls, ghost>>

\* -------------------------------------------------------------- Get / Poll
\* Poll (ring.go:167): lines 171-177 load rb.head and read the clock
Poll(t, d) ==
    /\ Begin(t, IF d = 0 THEN "get" ELSE "poll")
    /\ pos' = [pos EXCEPT ![t] = head]
    /\ timeout' = [timeout EXCEPT ![t] = d]
    /\ start' = [start EXCEPT ![t] = IF d > 0 THEN now ELSE 0]
    /\ pc' = [pc EXCEPT ![t] = "g_disp"]
    /\ UNCHANGED <<item, sawFull>>

\* Get (ring.go:148): Poll(0)
Get(t) == Poll(t, 0)

\* mutant of PollCheckDisposed: a disposed buffer is drained first; ErrDisposed
\* is returned only when the slot at pos holds nothing to read
PollCheckDisposedDrain(t) ==
    /\ Running
    /\ pc[t] = "g_disp"
    /\ IF disposed = 1 /\ ~Published(pos[t])
       THEN Return(t, "disposed", Nil)
       ELSE /\ pc' = [pc EXCEPT ![t] = "g_seq"]
            /\ UNCHANGED <<pos, timeout, start, res, val>>
    /\ UNCHANGED <<prog, op, item, now, calls, ghost>>

\* lines 181-183
PollCheckDisposed(t) ==
    /\ Running
    /\ pc[t] = "g_disp"
    /\ IF disposed = 1
       THEN Return(t, "disposed", Nil)
       ELSE /\ pc' = [pc EXCEPT ![t] = "g_seq"]
            /\ UNCHANGED <<pos, timeout, start, res, val>>
    /\ UNCHANGED <<prog, op, item, now, calls, ghost>>

\* mutant of PollLoadSeq: the sequence and pos + 1 are compared as signed
\* numbers, so a sequence behind pos + 1 panics
PollLoadSeqSigned(t) ==
    /\ Running
    /\ pc[t] = "g_seq"
    /\ LET dif == nodes[Slot(pos[t])].position - (pos[t] + 1) IN
       pc' = [pc EXCEPT ![t] =
                IF dif = 0 THEN "g_cas"
                ELSE IF dif < 0 THEN "panic"
                ELSE "g_reload"]
    /\ UNCHANGED <<prog, op, item, pos, timeout, start, res, val, now, calls, ghost>>

\* mutant of PollLoadSeq: the sequence is compared with pos, not pos + 1
PollLoadSeqUnpublished(t) ==
    /\ Running
    /\ pc[t] = "g_seq"
    /\ LET dif == Sub(nodes[Slot(pos[t])].position, pos[t]) IN
       pc' = [pc EXCEPT ![t] =
                IF dif = 0 THEN "g_cas"
                ELSE IF dif < 0 THEN "panic"
                ELSE "g_reload"]
    /\ UNCHANGED <<prog, op, item, pos, timeout, start, res, val, now, calls, ghost>>

\* lines 185-188, 192-194: load n.position and choose the case
PollLoadSeq(t) ==
    /\ Running
    /\ pc[t] = "g_seq"
    /\ LET dif == Sub(nodes[Slot(pos[t])].position, Add(pos[t], 1)) IN
       pc' = [pc EXCEPT ![t] =
                IF dif = 0 THEN "g_cas"
                ELSE IF dif < 0 THEN "panic"
                ELSE "g_reload"]
    /\ UNCHANGED <<prog, op, item, pos, timeout, start, res, val, now, calls, ghost>>

\* lines 189-191
PollCas(t) ==
    /\ Running
    /\ pc[t] = "g_cas"
    /\ IF head = pos[t]
       THEN /\ head' = Add(pos[t], 1)
            /\ pc' = [pc EXCEPT ![t] = "g_data"]
            /\ sawFull' = ObserveFull(sawFull, tail, head', pc', op)
       ELSE /\ pc' = [pc EXCEPT ![t] = "g_time"]
            /\ UNCHANGED <<head, sawFull>>
    /\ UNCHANGED <<tail, disposed, mask, size, nodes, op, item, pos, timeout, start,
                   res, val, now, calls,
                   yielded, startDisp, drainable, blocked, putAt, getAt>>

\* line 195
PollReload(t) ==
    /\ Running
    /\ pc[t] = "g_reload"
    /\ pos' = [pos EXCEPT ![t] = head]
    /\ pc' = [pc EXCEPT ![t] = "g_time"]
    /\ UNCHANGED <<prog, op, item, timeout, start, res, val, now, calls, ghost>>

\* mutant of PollCheckTimeout: a positive timeout ends the call at the first
\* check, whatever time has passed
PollCheckTimeoutEager(t) ==
    /\ Running
    /\ pc[t] = "g_time"
    /\ IF timeout[t] > 0
       THEN /\ Return(t, "timeout", Nil)
            /\ UNCHANGED yielded
       ELSE /\ pc' = [pc EXCEPT ![t] = "g_disp"]
            /\ yielded' = [yielded EXCEPT ![t] = TRUE]
            /\ UNCHANGED <<pos, timeout, start, res, val>>
    /\ UNCHANGED <<prog, op, item, now, calls,
                   startDisp, drainable, sawFull, blocked, putAt, getAt>>

\* mutant of PollCheckTimeout: the elapsed time is compared with the timeout
\* even when the timeout is not positive
PollCheckTimeoutUnguarded(t) ==
    /\ Running
    /\ pc[t] = "g_time"
    /\ IF now - start[t] >= timeout[t]
       THEN /\ Return(t, "timeout", Nil)
            /\ UNCHANGED yielded
       ELSE /\ pc' = [pc EXCEPT ![t] = "g_disp"]
            /\ yielded' = [yielded EXCEPT ![t] = TRUE]
            /\ UNCHANGED <<pos, timeout, start, res, val>>
    /\ UNCHANGED <<prog, op, item, now, calls,
                   startDisp, drainable, sawFull, blocked, putAt, getAt>>

\* lines 198-202: the timeout check, then Gosched and the next iteration
PollCheckTimeout(t) ==
    /\ Running
    /\ pc[t] = "g_time"
    /\ IF timeout[t] > 0 /\ now - start[t] >= timeout[t]
       THEN /\ Return(t, "timeout", Nil)
            /\ UNCHANGED yielded
       ELSE /\ pc' = [pc EXCEPT ![t] = "g_disp"]
            /\ yielded' = [yielded EXCEPT ![t] = TRUE]
            /\ UNCHANGED <<pos, timeout, start, res, val>>
    /\ UNCHANGED <<prog, op, item, now, calls,
                   startDisp, drainable, sawFull, blocked, putAt, getAt>>

\* line 204: data := n.data
PollData(t) ==
    /\ Running
    /\ pc[t] = "g_data"
    /\ val' = [val EXCEPT ![t] = nodes[Slot(pos[t])].data]
    /\ pc' = [pc EXCEPT ![t] = "g_clear"]
    /\ UNCHANGED <<prog, op, item, pos, timeout, start, res, now, calls, ghost>>

\* line 205: n.data = nil
PollClear(t) ==
    /\ Running
    /\ pc[t] = "g_clear"
    /\ nodes' = [nodes EXCEPT ![Slot(pos[t])].data = Nil]
    /\ pc' = [pc EXCEPT ![t] = "g_pub"]
    /\ UNCHANGED <<tail, head, disposed, mask, size, op, item, pos, timeout, start,
                   res, val, now, calls, ghost>>

\* mutant of PollPublish: the sequence stored is the slot's index + capacity,
\* not pos + capacity
PollPublishIndex(t) ==
    /\ Running
    /\ pc[t] = "g_pub"
    /\ nodes' = [nodes EXCEPT ![Slot(pos[t])].position = Add(Add(Slot(pos[t]), mask), 1)]
    /\ getAt' = [getAt EXCEPT ![pos[t]] = val[t]]
    /\ Return(t, "ok", val[t])
    /\ UNCHANGED <<tail, head, disposed, mask, size, op, item, now, calls,
                   yielded, startDisp, drainable, sawFull, blocked, putAt>>

\* lines 206-207
PollPublish(t) ==
    /\ Running
    /\ pc[t] = "g_pub"
    /\ nodes' = [nodes EXCEPT ![Slot(pos[t])].position = Add(Add(pos[t], mask), 1)]
    /\ getAt' = [getAt EXCEPT ![pos[t]] = val[t]]
    /\ Return(t, "ok", val[t])
    /\ UNCHANGED <<tail, head, disposed, mask, size, op, item, now, calls,
                   yielded, startDisp, drainable, sawFull, blocked, putAt>>

\* ------------------------------------------------------- Dispose and time
\* a Put that has not reserved a slot and finds the buffer full, or a Get/Poll
\* that has not reserved a slot and finds it empty
Waiting(u) ==
    \/ /\ op[u] = "put"
       /\ pc[u] \in {"p_disp", "p_seq", "p_cas", "p_reload"}
       /\ Occupied(tail, head) = Cap
    \/ /\ op[u] \in {"get", "poll"}
       /\ pc[u] \in {"g_disp", "g_seq", "g_cas", "g_reload", "g_time"}
       /\ Occupied(tail, head) = 0

\* mutant of Dispose: disposing also drops the payloads still in the slots
DisposeDiscard ==
    /\ Running
    /\ IF disposed = 0
       THEN /\ disposed' = 1
            /\ blocked' = [u \in Threads |-> Waiting(u)]
            /\ nodes' = [i \in DOMAIN nodes |-> [nodes[i] EXCEPT !.data = Nil]]
       ELSE UNCHANGED <<disposed, blocked, nodes>>
    /\ UNCHANGED <<tail, head, mask, size, locals, now, calls,
                   yielded, startDisp, drainable, sawFull, putAt, getAt>>

\* Dispose (ring.go:223), called by a goroutine of its own:
\* CAS(&rb.disposed, 0, 1)
Dispose ==
    /\ Running
    /\ IF disposed = 0
       THEN /\ disposed' = 1
            /\ blocked' = [u \in Threads |-> Waiting(u)]
       ELSE UNCHANGED <<disposed, blocked>>
    /\ UNCHANGED <<tail, head, mask, size, nodes, locals, now, calls,
                   yielded, startDisp, drainable, sawFull, putAt, getAt>>

\* the wall clock advances
Tick ==
    /\ Running
    /\ now < MaxTime
    /\ now' = now + 1
    /\ UNCHANGED <<prog, locals, calls, ghost>>

\* ---------------------------------------------------------- specifications
\* the steps thread t takes inside a call
Step(t) ==
    \/ PutCheckDisposed(t)
    \/ PutLoadSeq(t)
    \/ PutCas(t)
    \/ PutReload(t)
    \/ PutData(t)
    \/ PutPublish(t)
    \/ PollCheckDisposed(t)
    \/ PollLoadSeq(t)
    \/ PollCas(t)
    \/ PollReload(t)
    \/ PollCheckTimeout(t)
    \/ PollData(t)
    \/ PollClear(t)
    \/ PollPublish(t)

\* Put, Offer, Get and Dispose on a new buffer.
Next ==
    \/ \E t \in Threads : calls < MaxCalls /\ Put(t) /\ UNCHANGED hist
    \/ \E t \in Threads : calls < MaxCalls /\ Offer(t) /\ UNCHANGED hist
    \/ \E t \in Threads : calls < MaxCalls /\ Get(t) /\ UNCHANGED hist
    \/ \E t \in Threads : PutCheckDisposed(t) /\ UNCHANGED hist
    \/ \E t \in Threads : PutLoadSeq(t) /\ UNCHANGED hist
    \/ \E t \in Threads : PutCas(t) /\ UNCHANGED hist
    \/ \E t \in Threads : PutReload(t) /\ UNCHANGED hist
    \/ \E t \in Threads : PutData(t) /\ UNCHANGED hist
    \/ \E t \in Threads : PutPublish(t) /\ UNCHANGED hist
    \/ \E t \in Threads : PollCheckDisposed(t) /\ UNCHANGED hist
    \/ \E t \in Threads : PollLoadSeq(t) /\ UNCHANGED hist
    \/ \E t \in Threads : PollCas(t) /\ UNCHANGED hist
    \/ \E t \in Threads : PollReload(t) /\ UNCHANGED hist
    \/ \E t \in Threads : PollCheckTimeout(t) /\ UNCHANGED hist
    \/ \E t \in Threads : PollData(t) /\ UNCHANGED hist
    \/ \E t \in Threads : PollClear(t) /\ UNCHANGED hist
    \/ \E t \in Threads : PollPublish(t) /\ UNCHANGED hist
    \/ Dispose /\ UNCHANGED hist

Spec == Init /\ [][Next]_vars

\* Every operation, Poll with a timeout and the clock included, on a buffer
\* that already holds 0..Cap items.
NextFull ==
    \/ \E t \in Threads : calls < FullCalls /\ Put(t) /\ UNCHANGED hist
    \/ \E t \in Threads : calls < FullCalls /\ Offer(t) /\ UNCHANGED hist
    \/ \E t \in Threads : calls < FullCalls /\ Get(t) /\ UNCHANGED hist
    \/ \E t \in Threads : \E d \in 1..MaxTimeout :
            calls < FullCalls /\ Poll(t, d) /\ UNCHANGED hist
    \/ \E t \in Threads : PutCheckDisposed(t) /\ UNCHANGED hist
    \/ \E t \in Threads : PutLoadSeq(t) /\ UNCHANGED hist
    \/ \E t \in Threads : PutCas(t) /\ UNCHANGED hist
    \/ \E t \in Threads : PutReload(t) /\ UNCHANGED hist
    \/ \E t \in Threads : PutData(t) /\ UNCHANGED hist
    \/ \E t \in Threads : PutPublish(t) /\ UNCHANGED hist
    \/ \E t \in Threads : PollCheckDisposed(t) /\ UNCHANGED hist
    \/ \E t \in Threads : PollLoadSeq(t) /\ UNCHANGED hist
    \/ \E t \in Threads : PollCas(t) /\ UNCHANGED hist
    \/ \E t \in Threads : PollReload(t) /\ UNCHANGED hist
    \/ \E t \in Threads : PollCheckTimeout(t) /\ UNCHANGED hist
    \/ \E t \in Threads : PollData(t) /\ UNCHANGED hist
    \/ \E t \in Threads : PollClear(t) /\ UNCHANGED hist
    \/ \E t \in Threads : PollPublish(t) /\ UNCHANGED hist
    \/ Dispose /\ UNCHANGED hist
    \/ Tick /\ UNCHANGED hist

FullSpec == InitFilled /\ [][NextFull]_vars

\* FullSpec with goroutine 1 scheduled fairly: whenever it is inside a call, the
\* Go scheduler eventually runs its next step (Gosched only yields).  Nothing is
\* assumed of the other goroutines.
FairSpec == InitFilled /\ [][NextFull]_vars /\ WF_vars(Step(1) /\ UNCHANGED hist)

\* One goroutine calling Put and Get on a new buffer; hist logs each call as it
\* returns.
Log(t) ==
    hist' = IF pc[t] # "idle" /\ pc'[t] = "idle"
            THEN Append(hist, [op |-> op[t], item |-> item[t], res |-> res'[t],
                               val |-> val'[t], yielded |-> yielded'[t]])
            ELSE hist

NextSeq ==
    \/ calls < SeqCalls /\ Put(1) /\ Log(1)
    \/ calls < SeqCalls /\ Get(1) /\ Log(1)
    \/ PutCheckDisposed(1) /\ Log(1)
    \/ PutLoadSeq(1) /\ Log(1)
    \/ PutCas(1) /\ Log(1)
    \/ PutReload(1) /\ Log(1)
    \/ PutData(1) /\ Log(1)
    \/ PutPublish(1) /\ Log(1)
    \/ PollCheckDisposed(1) /\ Log(1)
    \/ PollLoadSeq(1) /\ Log(1)
    \/ PollCas(1) /\ Log(1)
    \/ PollReload(1) /\ Log(1)
    \/ PollCheckTimeout(1) /\ Log(1)
    \/ PollData(1) /\ Log(1)
    \/ PollClear(1) /\ Log(1)
    \/ PollPublish(1) /\ Log(1)

SeqSpec == Init /\ [][NextSeq]_vars

\* ---------------------------------------------------------------- Len
\* Len (ring.go:212): the left operand, atomic.LoadUint64(&rb.tail), is read
\* first and kept in pos[t]
LenLoadTail(t) ==
    /\ Begin(t, "len")
    /\ pos' = [pos EXCEPT ![t] = tail]
    /\ pc' = [pc EXCEPT ![t] = "l_head"]
    /\ UNCHANGED <<item, timeout, start, sawFull>>

\* Len (ring.go:212): the right operand, atomic.LoadUint64(&rb.head), is read
\* and the unsigned difference returned
LenLoadHead(t) ==
    /\ Running
    /\ pc[t] = "l_head"
    /\ Return(t, "ok", Sub(pos[t], head))
    /\ UNCHANGED <<prog, op, item, now, calls, ghost>>

\* ------------------------------------------------- timeouts of either sign
\* FullSpec with Poll also called with a negative timeout.
Timeouts == ((0 - NegTimeout)..MaxTimeout) \ {0}

NextTimed ==
    \/ \E t \in Threads : calls < TimedCalls /\ Put(t) /\ UNCHANGED hist
    \/ \E t \in Threads : calls < TimedCalls /\ Offer(t) /\ UNCHANGED hist
    \/ \E t \in Threads : calls < TimedCalls /\ Get(t) /\ UNCHANGED hist
    \/ \E t \in Threads : \E d \in Timeouts :
            calls < TimedCalls /\ Poll(t, d) /\ UNCHANGED hist
    \/ \E t \in Threads : PutCheckDisposed(t) /\ UNCHANGED hist
    \/ \E t \in Threads : PutLoadSeq(t) /\ UNCHANGED hist
    \/ \E t \in Threads : PutCas(t) /\ UNCHANGED hist
    \/ \E t \in Threads : PutReload(t) /\ UNCHANGED hist
    \/ \E t \in Threads : PutData(t) /\ UNCHANGED hist
    \/ \E t \in Threads : PutPublish(t) /\ UNCHANGED hist
    \/ \E t \in Threads : PollCheckDisposed(t) /\ UNCHANGED hist
    \/ \E t \in Threads : PollLoadSeq(t) /\ UNCHANGED hist
    \/ \E t \in Threads : PollCas(t) /\ UNCHANGED hist
    \/ \E t \in Threads : PollReload(t) /\ UNCHANGED hist
    \/ \E t \in Threads : PollCheckTimeout(t) /\ UNCHANGED hist
    \/ \E t \in Threads : PollData(t) /\ UNCHANGED hist
    \/ \E t \in Threads : PollClear(t) /\ UNCHANGED hist
    \/ \E t \in Threads : PollPublish(t) /\ UNCHANGED hist
    \/ Dispose /\ UNCHANGED hist
    \/ Tick /\ UNCHANGED hist

TimedSpec == InitFilled /\ [][NextTimed]_vars

\* TimedSpec with goroutine 1 scheduled fairly (nothing is assumed of the clock
\* or of the other goroutines).
TimedFairSpec ==
    InitFilled /\ [][NextTimed]_vars /\ WF_vars(Step(1) /\ UNCHANGED hist)

\* ------------------------------------------------------- later laps, Len
\* the slot index of position k in a buffer of sz slots (sz a power of two)
SlotOf(k, sz) == BitAnd(k, Sub(sz, 1))

\* the buffer after one goroutine has Put and Got h0 items in turn, then Put n
\* more (n <= Cap), and returned: slot i was last used by position
\* Last(i), which is unread (lines 139-140 ran) or read (lines 204-206 ran)
Lapped(s, h0, n) ==
    LET sz == roundUp(s)
        Used(i) == {k \in 0..(h0 + n - 1) : SlotOf(k, sz) = i}
        Last(i) == CHOOSE k \in Used(i) : \A j \in Used(i) : j <= k
    IN
    /\ size = s
    /\ nodes = [i \in 0..(sz - 1) |->
                    IF Used(i) = {} THEN [position |-> i, data |-> Nil]
                    ELSE IF Last(i) >= h0
                         THEN [position |-> Add(Last(i), 1), data |-> PreItem(Last(i))]
                         ELSE [position |-> Add(Add(Last(i), Sub(sz, 1)), 1),
                               data |-> Nil]]
    /\ mask = Sub(sz, 1)
    /\ tail = h0 + n
    /\ head = h0
    /\ disposed = 0
    /\ putAt = [k \in 0..(LogLen - 1) |-> IF k < h0 + n THEN PreItem(k) ELSE None]
    /\ getAt = [k \in 0..(LogLen - 1) |-> IF k < h0 THEN PreItem(k) ELSE None]

InitLapped ==
    /\ \E s \in Sizes : \E h0 \in 0..roundUp(s) : \E n \in 0..roundUp(s) :
            Lapped(s, h0, n)
    /\ Fresh

\* Put, Get and Len on a buffer that has been in use for up to one lap.
NextLap ==
    \/ \E t \in Threads : calls < LapCalls /\ Put(t) /\ UNCHANGED hist
    \/ \E t \in Threads : calls < LapCalls /\ Get(t) /\ UNCHANGED hist
    \/ \E t \in Threads : calls < LapCalls /\ LenLoadTail(t) /\ UNCHANGED hist
    \/ \E t \in Threads : PutCheckDisposed(t) /\ UNCHANGED hist
    \/ \E t \in Threads : PutLoadSeq(t) /\ UNCHANGED hist
    \/ \E t \in Threads : PutCas(t) /\ UNCHANGED hist
    \/ \E t \in Threads : PutReload(t) /\ UNCHANGED hist
    \/ \E t \in Threads : PutData(t) /\ UNCHANGED hist
    \/ \E t \in Threads : PutPublish(t) /\ UNCHANGED hist
    \/ \E t \in Threads : PollCheckDisposed(t) /\ UNCHANGED hist
    \/ \E t \in Threads : PollLoadSeq(t) /\ UNCHANGED hist
    \/ \E t \in Threads : PollCas(t) /\ UNCHANGED hist
    \/ \E t \in Threads : PollReload(t) /\ UNCHANGED hist
    \/ \E t \in Threads : PollCheckTimeout(t) /\ UNCHANGED hist
    \/ \E t \in Threads : PollData(t) /\ UNCHANGED hist
    \/ \E t \in Threads : PollClear(t) /\ UNCHANGED hist
    \/ \E t \in Threads : PollPublish(t) /\ UNCHANGED hist
    \/ \E t \in Threads : LenLoadHead(t) /\ UNCHANGED hist

LapSpec == InitLapped /\ [][NextLap]_vars

\* ------------------------------------------------------ every goroutine fair
\* Put and Get on a new buffer that is never disposed; the scheduler eventually
\* runs the next step of every goroutine that is inside a call.
NextLive ==
    \/ \E t \in Threads : calls < LiveCalls /\ Put(t) /\ UNCHANGED hist
    \/ \E t \in Threads : calls < LiveCalls /\ Get(t) /\ UNCHANGED hist
    \/ \E t \in Threads : PutCheckDisposed(t) /\ UNCHANGED hist
    \/ \E t \in Threads : PutLoadSeq(t) /\ UNCHANGED hist
    \/ \E t \in Threads : PutCas(t) /\ UNCHANGED hist
    \/ \E t \in Threads : PutReload(t) /\ UNCHANGED hist
    \/ \E t \in Threads : PutData(t) /\ UNCHANGED hist
    \/ \E t \in Threads : PutPublish(t) /\ UNCHANGED hist
    \/ \E t \in Threads : PollCheckDisposed(t) /\ UNCHANGED hist
    \/ \E t \in Threads : PollLoadSeq(t) /\ UNCHANGED hist
    \/ \E t \in Threads : PollCas(t) /\ UNCHANGED hist
    \/ \E t \in Threads : PollReload(t) /\ UNCHANGED hist
    \/ \E t \in Threads : PollCheckTimeout(t) /\ UNCHANGED hist
    \/ \E t \in Threads : PollData(t) /\ UNCHANGED hist
    \/ \E t \in Threads : PollClear(t) /\ UNCHANGED hist
    \/ \E t \in Threads : PollPublish(t) /\ UNCHANGED hist

LiveSpec ==
    Init /\ [][NextLive]_vars /\ \A t \in Threads : WF_vars(Step(t) /\ UNCHANGED hist)

\* ------------------------------------------------------------ construction
\* every size NewRingBuffer can be called with, 0 excepted
RoundSizes == 1..(Word - 1)

\* rb := &RingBuffer{} (ring.go:236): the zero value, before rb.init(s) runs
ZeroBuffer(s) ==
    /\ size = s
    /\ nodes = [i \in 0..(0 - 1) |-> [position |-> i, data |-> Nil]]
    /\ mask = 0
    /\ tail = 0
    /\ head = 0
    /\ disposed = 0

InitRound ==
    /\ \E s \in RoundSizes : ZeroBuffer(s)
    /\ putAt = [k \in 0..(LogLen - 1) |-> None]
    /\ getAt = [k \in 0..(LogLen - 1) |-> None]
    /\ Fresh

\* rb.init has run
Constructed == ~(Cap = 0 /\ mask = 0)

\* rb.init(size) (ring.go:63-70)
RingInit ==
    /\ ~Constructed
    /\ LET sz == roundUp(size) IN
       /\ nodes' = [i \in 0..(sz - 1) |-> [position |-> i, data |-> Nil]]
       /\ mask' = Sub(sz, 1)
    /\ UNCHANGED <<tail, head, disposed, size, locals, now, calls, ghost>>

NextRound == RingInit /\ UNCHANGED hist

RoundSpec == InitRound /\ [][NextRound]_vars

\* ================================================================ claims
Positions == 0..(LogLen - 1)
\* positions whose Get/Poll has returned, positions a put has reserved
Returned == {k \in Positions : getAt[k] # None}
Reserved == {k \in Positions : putAt[k] # None}
AllIdle == \A t \in Threads : pc[t] = "idle"
Shared == <<tail, head, nodes>>

\* C1: on a buffer that is never disposed, every value a Get returned was
\* passed to a Put that won its slot, no value is returned by two Gets, and once
\* every call has returned, with as many Gets as Puts, the returned values are
\* exactly the put values.
C1_NoLossNoDup ==
    disposed = 0 =>
        /\ \A k \in Returned : \E j \in Reserved : putAt[j] = getAt[k]
        /\ \A k1, k2 \in Returned : getAt[k1] = getAt[k2] => k1 = k2
        /\ (AllIdle /\ Cardinality(Returned) = Cardinality(Reserved)) =>
              {getAt[k] : k \in Returned} = {putAt[k] : k \in Reserved}

\* C3: the Get/Poll whose CAS moved head from k to k+1 returns the item of the
\* Put/Offer whose CAS moved tail from k to k+1.
C3_HandOffInOrder == \A k \in Returned : getAt[k] = putAt[k]

\* C4: tail - head never exceeds the capacity.
C4_BoundedOccupancy == Occupied(tail, head) <= Cap

\* C8: an Offer on a buffer that was not disposed returns (false, nil) only if
\* the buffer was full at some instant during the call.
C8_OfferRefusedOnlyWhenFull ==
    \A t \in Threads :
        (op[t] = "offer" /\ pc[t] = "idle" /\ res[t] = "full") => sawFull[t]

\* C10 (as claimed): Poll returns ErrTimeout only when, at that check, the slot
\* at the shared head holds no published unread value.
C10_TimeoutOnlyWhenEmpty ==
    [][\A t \in Threads :
          (pc[t] = "g_time" /\ pc'[t] = "idle" /\ res'[t] = "timeout")
              => ~Published(head)]_vars

\* C9: an Offer never yields (it returns within its first iteration), and an
\* Offer that returns false has not changed tail, head or any slot: only a call
\* whose item entered the reservation log changes them.
C9_OfferNeverBlocks ==
    /\ [](\A t \in Threads : op[t] = "offer" =>
            /\ ~yielded[t]
            /\ (pc[t] = "idle" /\ res[t] \in {"full", "disposed"})
                  => \A k \in Positions : putAt[k] # item[t])
    /\ [][\A t \in Threads :
            (op[t] = "offer" /\ pc[t] # "idle" /\ pc'[t] # pc[t] /\ Shared' # Shared)
                => \E k \in Positions : putAt'[k] = item[t]]_vars

\* C9 witness: an Offer lost the tail CAS on a buffer that was never full and
\* returned (false, nil).
C9_Witness ==
    \E t \in Threads :
        op[t] = "offer" /\ pc[t] = "idle" /\ res[t] = "full" /\ ~sawFull[t]

\* C6: a call that starts after Dispose has returned never gets past its first
\* disposed check: it does not yield, it returns ErrDisposed (and no value), and
\* none of its steps changes tail, head or a slot.
C6_CallsAfterDisposeFail ==
    /\ [](\A t \in Threads : startDisp[t] =>
            /\ ~yielded[t]
            /\ pc[t] \in {"idle", "p_disp", "g_disp"}
            /\ pc[t] = "idle" => (res[t] = "disposed" /\ val[t] = Nil))
    /\ [][\A t \in Threads :
            (startDisp'[t] /\ pc'[t] # pc[t]) => Shared' = Shared]_vars

\* C6 witness: a Poll with a timeout, started after Dispose on a buffer that
\* holds a published value, has returned ErrDisposed.
C6_Witness ==
    \E t \in Threads :
        /\ startDisp[t] /\ op[t] = "poll" /\ pc[t] = "idle" /\ res[t] = "disposed"
        /\ Published(head)

\* C5 (as claimed): a Get issued after Dispose, with no other call in flight,
\* while an unread value is published at head, succeeds.
C5_DrainAfterDispose ==
    \A t \in Threads :
        (drainable[t] /\ op[t] \in {"get", "poll"} /\ pc[t] = "idle")
            => res[t] = "ok"

\* C5 (amended): Dispose itself leaves tail, head and every slot as they are, so
\* the slot at head stays published; but a Get/Poll issued after it returns
\* ErrDisposed without a value, and the slot at head stays unread.
C5_NoDrainAfterDispose ==
    /\ [](\A t \in Threads : (drainable[t] /\ op[t] \in {"get", "poll"}) =>
            /\ Published(head)
            /\ pc[t] = "idle" => (res[t] = "disposed" /\ val[t] = Nil))
    /\ [][disposed' # disposed => Shared' = Shared]_vars

\* C5 witness: a full buffer was disposed and a Get issued afterwards has
\* returned ErrDisposed.
C5_Witness ==
    \E t \in Threads :
        /\ drainable[t] /\ op[t] = "get" /\ pc[t] = "idle" /\ res[t] = "disposed"
        /\ Occupied(tail, head) = Cap

Kinds ==
    [i \in 1..Len(hist) |-> hist[i].op]
        \o (IF pc[1] # "idle" THEN <<op[1]>> ELSE <<>>)
NPuts == Cardinality({i \in 1..Len(Kinds) : Kinds[i] = "put"})
\* N Puts (1 <= N <= Cap) on the new buffer, then at most N Gets
PutsThenGets ==
    /\ \A i, j \in 1..Len(Kinds) : (i < j /\ Kinds[i] = "get") => Kinds[j] = "get"
    /\ NPuts >= 1
    /\ NPuts <= Cap
    /\ Len(Kinds) - NPuts <= NPuts

\* C2: when one goroutine Puts N <= Cap items on a new buffer and then Gets N
\* times, no call yields, every call succeeds, and the i-th Get returns the item
\* of the i-th Put.
C2_SingleThreadFifo ==
    PutsThenGets =>
        /\ ~yielded[1]
        /\ \A i \in 1..Len(hist) :
              /\ hist[i].res = "ok"
              /\ ~hist[i].yielded
              /\ hist[i].op = "get" => hist[i].val = hist[i - NPuts].item

\* C2 witness: capacity 2, two Puts then two Gets, all returned.
C2_Witness ==
    /\ PutsThenGets /\ Cap = 2 /\ NPuts = 2
    /\ Len(hist) = 4 /\ pc[1] = "idle"
    /\ hist[4].val = hist[2].item

\* a Get/Poll that has not claimed a slot
Unclaimed == {"g_disp", "g_seq", "g_cas", "g_reload", "g_time"}
\* thread t returns r in this step
Returns(t, r) == pc[t] # "idle" /\ pc'[t] = "idle" /\ res'[t] = r

\* C11: a Poll with a positive timeout whose time is up, on an empty buffer that
\* is not disposed, returns ErrTimeout unless an item arrives or the buffer is
\* disposed first (goroutine 1 scheduled fairly); a Poll returns ErrTimeout only
\* when at least the timeout has elapsed since it started, the returning step
\* changes neither head, tail nor a slot, and a Poll step that does change them
\* belongs to a call that returns a value.
C11_PollTimesOut ==
    /\ (/\ op[1] = "poll" /\ timeout[1] > 0 /\ pc[1] \in Unclaimed
        /\ now - start[1] >= timeout[1]
        /\ tail = head /\ disposed = 0)
         ~> (\/ pc[1] = "idle" /\ res[1] = "timeout"
             \/ tail # head
             \/ disposed = 1)
    /\ [][\A t \in Threads :
            /\ Returns(t, "timeout") =>
                 /\ timeout[t] > 0
                 /\ now - start[t] >= timeout[t]
                 /\ Shared' = Shared
            /\ (op[t] = "poll" /\ pc[t] # pc'[t] /\ pc[t] # "idle" /\ Shared' # Shared) =>
                 \/ pc'[t] \in {"g_data", "g_clear", "g_pub"}
                 \/ Returns(t, "ok")]_vars

\* a Poll has looped, seen its time run out on an empty buffer and returned
\* ErrTimeout
C11_Witness ==
    /\ pc[1] = "idle" /\ op[1] = "poll" /\ res[1] = "timeout" /\ yielded[1]
    /\ tail = head /\ disposed = 0 /\ now >= 1

\* C12: a Get, or a Poll whose timeout is zero or negative, never returns
\* ErrTimeout; when it returns, it returns a value or ErrDisposed.
C12_NoTimeoutWithoutTimeout ==
    [][\A t \in Threads :
         (op[t] \in {"get", "poll"} /\ timeout[t] <= 0 /\ pc[t] # "idle" /\ pc'[t] = "idle")
            => res'[t] \in {"ok", "disposed"}]_vars

\* a Poll with a negative timeout has looped and stands at the timeout check
\* again, on the last tick of the clock
C12_Witness ==
    \E t \in Threads :
        /\ op[t] = "poll" /\ timeout[t] < 0 /\ pc[t] = "g_time"
        /\ yielded[t] /\ now = MaxTime

\* the smallest power of two that is >= s, as a number (2^WordBits included,
\* which no word holds)
PowersOfTwo == {2^k : k \in 0..WordBits}
MinPow2(s) == CHOOSE p \in PowersOfTwo : p >= s /\ \A q \in PowersOfTwo : q >= s => p <= q

Writing == {"p_data", "p_pub"}
\* a consumer that has won its CAS on head and not yet stored the sequence
Reading == {"g_data", "g_clear", "g_pub"}

\* C14: head <= tail in every state, and a CAS moves head from h to h+1 only
\* when a producer's CAS has moved tail past h and that producer has stored the
\* slot's sequence (it is no longer between its CAS and line 140).
C14_HeadNeverOutrunsTail ==
    /\ [](head <= tail)
    /\ [][head' # head =>
            /\ head' = Add(head, 1)
            /\ tail > head
            /\ putAt[head] # None
            /\ \A u \in Threads : ~(pc[u] \in Writing /\ pos[u] = head)]_vars

\* a consumer has won its CAS on head while the buffer held a single item, so
\* head has caught up with tail
C14_Witness ==
    \E t \in Threads : pc[t] \in Reading /\ head = Add(pos[t], 1) /\ head = tail

\* C15: no two threads are at once between winning their CAS and storing the
\* sequence of the same slot.
C15_SingleAccessorPerSlot ==
    \A t, u \in Threads :
        (t # u /\ pc[t] \in Writing \cup Reading /\ pc[u] \in Writing \cup Reading)
            => Slot(pos[t]) # Slot(pos[u])

\* the same on buffers of two or more slots (holds; not the claim)
SingleAccessorFromTwoSlots == Cap >= 2 => C15_SingleAccessorPerSlot

\* the sequence thread t loads at line 118 / 185
Loaded(t) == nodes[Slot(pos[t])].position
\* thread t executes line 118 (put) or line 185 (Poll) in this step and the
\* sequence it loads is behind its local tail, or behind its local head + 1
PutLoadsLagging(t) == pc[t] = "p_seq" /\ pc'[t] # "p_seq" /\ Loaded(t) < pos[t]
PollLoadsLagging(t) == pc[t] = "g_seq" /\ pc'[t] # "g_seq" /\ Loaded(t) < Add(pos[t], 1)

BeingWritten(k) == \E u \in Threads : pc[u] \in Writing /\ pos[u] = k

PutClaims(i) == {k \in Positions : k < tail /\ Slot(k) = i}
GetClaims(i) == {k \in Positions : k < head /\ Slot(k) = i}
Latest(S) == {k \in S : \A j \in S : j <= k}

\* the claims of slot i whose producer has stored the sequence (line 140)
PutStored(i) == {k \in PutClaims(i) : ~BeingWritten(k)}

\* C18 as stated: the sequence of slot i is i, or t + 1 for the tail value t at
\* which a producer most recently claimed and wrote the slot, or i + capacity.
C18_ThreeValues ==
    \A i \in DOMAIN nodes :
        nodes[i].position \in
            {i, i + Cap} \cup {Add(t, 1) : t \in Latest(PutStored(i))}

\* C18: the sequence of slot i is i, or t + 1 for a tail value t at which a
\* producer claimed the slot, or h + capacity for a head value h at which a
\* consumer claimed the slot; on a buffer of two or more slots t and h are the
\* most recent such claims.
C18_ClaimedValues ==
    \A i \in DOMAIN nodes :
        /\ nodes[i].position \in
              {i} \cup {Add(t, 1) : t \in PutClaims(i)}
                  \cup {Add(h, Cap) : h \in GetClaims(i)}
        /\ Cap >= 2 =>
              nodes[i].position \in
                  {i} \cup {Add(t, 1) : t \in Latest(PutClaims(i))}
                      \cup {Add(h, Cap) : h \in Latest(GetClaims(i))}

\* a consumer has released a slot on its second lap: the sequence is
\* h + capacity with h >= capacity
C18_Witness ==
    \E i \in DOMAIN nodes : \E h \in GetClaims(i) :
        h >= Cap /\ Cap >= 2 /\ nodes[i].position = Add(h, Cap)

\* some thread is inside Get / inside Put
GetInside == \E t \in Threads : op[t] = "get" /\ pc[t] # "idle"
PutInside == \E t \in Threads : op[t] = "put" /\ pc[t] # "idle"
\* the number of Gets that have returned a value, of Puts that have stored
\* their sequence (and return nil in the same step)
GetsDone == Cardinality(Returned)
PutsDone == Cardinality({k \in Positions : k < tail /\ ~BeingWritten(k)})

\* C19: on a buffer that is never disposed, with every goroutine scheduled
\* fairly: whenever tail - head > 0 and a thread is inside Get, one more Get
\* eventually returns a value; whenever tail - head < capacity and a thread is
\* inside Put, one more Put eventually succeeds.
C19_NoStuckQueue ==
    \A c \in 0..LiveCalls :
        /\ (Occupied(tail, head) > 0 /\ GetInside /\ GetsDone = c) ~> (GetsDone > c)
        /\ (Occupied(tail, head) < Cap /\ PutInside /\ PutsDone = c) ~> (PutsDone > c)

\* the same on buffers of two or more slots (holds; not the claim)
NoStuckQueueFromTwoSlots ==
    \A c \in 0..LiveCalls :
        /\ (Cap >= 2 /\ Occupied(tail, head) > 0 /\ GetInside /\ GetsDone = c)
              ~> (GetsDone > c)
        /\ (Cap >= 2 /\ Occupied(tail, head) < Cap /\ PutInside /\ PutsDone = c)
              ~> (PutsDone > c)

\* C20: every value Len has returned is between 0 and the capacity.
C20_LenInRange ==
    \A t \in Threads :
        (op[t] = "len" /\ pc[t] = "idle" /\ res[t] = "ok") =>
            (val[t] >= 0 /\ val[t] <= Cap)

\* the same on buffers of two or more slots (violated as well: head passes the
\* tail that Len loaded and the unsigned difference wraps)
LenInRangeFromTwoSlots == Cap >= 2 => C20_LenInRange

====
